---- MODULE Spec2Model ----
(***************************************************************************)
(* Model of tibber/response_handler.py: extract_response_data classifies   *)
(* one completed HTTP/GraphQL response into a returned payload or a raised *)
(* exception, using extract_error_details on the body's "errors" value.    *)
(*                                                                         *)
(* Text is modelled as a sequence of one-character strings so that the     *)
(* substring test and the f-string concatenations are computed.  A JSON    *)
(* value is a record [t, s]: t is its JSON type ("absent" when the key is  *)
(* missing) and s is what Python's str() renders for it.                   *)
(***************************************************************************)
EXTENDS Integers, Sequences, FiniteSets, TLC

VARIABLES response, pc, result, outcome

vars == <<response, pc, result, outcome>>

(* ------------------------------ text -------------------------------- *)

\* "application/json"
S_application_json ==
    <<"a", "p", "p", "l", "i", "c", "a", "t", "i", "o", "n", "/", "j", "s", "o", "n">>

\* "text/html"
S_text_html ==
    <<"t", "e", "x", "t", "/", "h", "t", "m", "l">>

\* "text/json"
S_text_json ==
    <<"t", "e", "x", "t", "/", "j", "s", "o", "n">>

\* "demo user"
S_demo_user ==
    <<"d", "e", "m", "o", " ", "u", "s", "e", "r">>

\* "json"
S_json ==
    <<"j", "s", "o", "n">>

\* "no auth"
M_no_auth ==
    <<"n", "o", " ", "a", "u", "t", "h">>

\* "not for demo user"
M_not_for_demo ==
    <<"n", "o", "t", " ", "f", "o", "r", " ", "d", "e", "m", "o", " ", "u", "s", "e", "r">>

\* "Demo User"
M_upper_demo ==
    <<"D", "e", "m", "o", " ", "U", "s", "e", "r">>

\* "rate limited"
M_rate_limited ==
    <<"r", "a", "t", "e", " ", "l", "i", "m", "i", "t", "e", "d">>

\* "request failed"
S_request_failed ==
    <<"r", "e", "q", "u", "e", "s", "t", " ", "f", "a", "i", "l", "e", "d">>

\* "N/A"
S_NA ==
    <<"N", "/", "A">>

\* "Unhandled error: "
S_Unhandled ==
    <<"U", "n", "h", "a", "n", "d", "l", "e", "d", " ", "e", "r", "r", "o", "r", ":", " ">>

\* "Unexpected content type: "
S_UnexpectedCT ==
    <<"U", "n", "e", "x", "p", "e", "c", "t", "e", "d", " ", "c", "o", "n", "t", "e", "n", "t", " ", "t", "y", "p", "e", ":", " ">>

\* "Failed to parse response: "
S_FailedParse ==
    <<"F", "a", "i", "l", "e", "d", " ", "t", "o", " ", "p", "a", "r", "s", "e", " ", "r", "e", "s", "p", "o", "n", "s", "e", ":", " ">>

\* "Unexpected response: "
S_UnexpectedResp ==
    <<"U", "n", "e", "x", "p", "e", "c", "t", "e", "d", " ", "r", "e", "s", "p", "o", "n", "s", "e", ":", " ">>

\* "None"
S_None ==
    <<"N", "o", "n", "e">>

\* "7"
S_7 ==
    <<"7">>

\* "<StreamReader>"
S_StreamReader ==
    <<"<", "S", "t", "r", "e", "a", "m", "R", "e", "a", "d", "e", "r", ">">>

\* "Expecting value"
S_Expecting ==
    <<"E", "x", "p", "e", "c", "t", "i", "n", "g", " ", "v", "a", "l", "u", "e">>

\* "[]"
S_emptylist ==
    <<"[", "]">>
(* --------------------------- JSON values ---------------------------- *)

\* a JSON string used as a message
Str(s) == [t |-> "str", s |-> s]

\* JSON null, Python None
NoneVal == [t |-> "null", s |-> S_None]

\* a JSON number (7)
NumVal == [t |-> "num", s |-> S_7]

\* the key is missing from its mapping
Absent == [t |-> "absent", s |-> <<>>]

\* a JSON string used as an extension code
CodeStr(c) == [t |-> "str", s |-> c]

NoneCode == [t |-> "null", s |-> "None"]

AbsentCode == [t |-> "absent", s |-> ""]

(* ------------------- constants of tibber/const.py ------------------- *)

API_ERR_CODE_UNKNOWN == "UNKNOWN"

API_ERR_CODE_UNAUTH == "UNAUTHORIZED"

HTTP_CODES_RETRIABLE == {429, 502, 503, 504}

HTTP_CODES_FATAL == {400, 401, 403, 404}

\* HTTPStatus.OK
HTTP_OK == 200

\* str(response.content): the repr of the response's stream reader
ContentRepr == S_StreamReader

(* ------------------------------ bounds ------------------------------ *)

\* longest "errors" list drawn as an input
MaxErrors == 2

(* ------------------------------ inputs ------------------------------ *)

Statuses == {HTTP_OK} \cup HTTP_CODES_RETRIABLE \cup HTTP_CODES_FATAL \cup {418, 500}

ContentTypes == {S_application_json, S_text_html, S_text_json}

Messages ==
    {Absent, NoneVal, NumVal, Str(<<>>), Str(M_no_auth), Str(S_demo_user),
     Str(M_not_for_demo), Str(M_upper_demo), Str(M_rate_limited)}

Codes ==
    {AbsentCode, NoneCode, CodeStr("UNAUTHENTICATED"),
     CodeStr("INTERNAL_SERVER_ERROR"), CodeStr(API_ERR_CODE_UNAUTH),
     CodeStr(API_ERR_CODE_UNKNOWN), CodeStr("BAD_USER_INPUT")}

\* the "extensions" value of an error entry: missing, null, a string, or a
\* mapping with any "code"
ExtensionsVals ==
    {[t |-> "absent", code |-> AbsentCode], [t |-> "null", code |-> AbsentCode],
     [t |-> "str", code |-> AbsentCode]}
    \cup {[t |-> "dict", code |-> c] : c \in Codes}

\* an element of an "errors" list: a mapping, or null, or a string
Entries ==
    {[t |-> "dict", message |-> m, extensions |-> x] :
        m \in Messages, x \in ExtensionsVals}
    \cup {[t |-> k, message |-> Absent, extensions |-> [t |-> "absent", code |-> AbsentCode]] :
        k \in {"null", "str"}}

\* entries drawn for the positions after the first
LaterEntries ==
    {[t |-> "null", message |-> Absent,
      extensions |-> [t |-> "absent", code |-> AbsentCode]],
     [t |-> "dict", message |-> Str(M_no_auth),
      extensions |-> [t |-> "dict", code |-> CodeStr("UNAUTHENTICATED")]],
     [t |-> "dict", message |-> Str(S_demo_user),
      extensions |-> [t |-> "dict", code |-> CodeStr("INTERNAL_SERVER_ERROR")]]}

TailSeqs == UNION {[1..k -> LaterEntries] : k \in 0..(MaxErrors - 1)}

\* the "errors" value of a body: missing, null, a list, or a non-empty
\* string, a non-empty mapping, a non-zero number
ErrorsVals ==
    {[t |-> k, v |-> <<>>] : k \in {"absent", "null", "list", "str", "dict", "num"}}
    \cup {[t |-> "list", v |-> <<f>> \o r] : f \in Entries, r \in TailSeqs}

\* a response body: text that is not JSON, a JSON list, JSON null, or a
\* JSON mapping with or without "data" and with any "errors"
Bodies ==
    {[t |-> "malformed", s |-> S_Expecting, hasData |-> FALSE, errors |-> [t |-> "absent", v |-> <<>>]],
     [t |-> "list", s |-> S_emptylist, hasData |-> FALSE, errors |-> [t |-> "absent", v |-> <<>>]],
     [t |-> "null", s |-> S_None, hasData |-> FALSE, errors |-> [t |-> "absent", v |-> <<>>]]}
    \cup {[t |-> "dict", s |-> <<>>, hasData |-> d, errors |-> e] :
            d \in BOOLEAN, e \in ErrorsVals}

\* no decoded value yet, no payload
NoBody == [t |-> "none", s |-> <<>>, hasData |-> FALSE, errors |-> [t |-> "absent", v |-> <<>>]]

(* ----------------------------- helpers ------------------------------ *)

\* Python's  needle in hay  for two str values
Contains(needle, hay) ==
    \E i \in 0..(Len(hay) - Len(needle)) :
        SubSeq(hay, i + 1, i + Len(needle)) = needle

\* dict.get(key, default): the default replaces a missing key only; a key
\* present with the value null yields None
DictGet(value, default) ==
    IF value.t = "absent" THEN default ELSE value

\* Python's  not errors  for the value held in errors
Falsy(errors) ==
    \/ errors.t = "null"
    \/ errors.t = "list" /\ Len(errors.v) = 0

\* what a call ends in: kind is "Success" for a returned payload, else the
\* class name of the raised exception
Raise(kind, status, message, code) ==
    [kind |-> kind, status |-> status, message |-> message, code |-> code,
     payload |-> NoBody]

\* fault: the call returns the value under "data" instead of the envelope
ReturnData(status, payload) ==
    IF payload.hasData
    THEN [kind |-> "Success", status |-> status, message |-> Absent,
          code |-> AbsentCode, payload |-> [payload EXCEPT !.t = "data"]]
    ELSE [kind |-> "KeyError", status |-> status, message |-> Absent,
          code |-> AbsentCode, payload |-> NoBody]

Return(status, payload) ==
    [kind |-> "Success", status |-> status, message |-> Absent,
     code |-> AbsentCode, payload |-> payload]

\* an exception of the interpreter, outside tibber/exceptions.py
Crash(kind, status) ==
    Raise(kind, status, Absent, AbsentCode)

\* the call has not ended
Pending == [kind |-> "pending", status |-> 0, message |-> Absent,
            code |-> AbsentCode, payload |-> NoBody]

(* ----------------------- extract_error_details ---------------------- *)

Details(code, message) == [exc |-> "none", code |-> code, message |-> message]

DetailsRaise(exc) == [exc |-> exc, code |-> AbsentCode, message |-> Absent]

extract_error_details(errors, default_message) ==
    IF Falsy(errors) THEN Details(CodeStr(API_ERR_CODE_UNKNOWN), default_message)
    ELSE IF errors.t = "num" THEN DetailsRaise("TypeError")
    ELSE IF errors.t = "dict" THEN DetailsRaise("KeyError")
    ELSE IF errors.t = "str" THEN DetailsRaise("AttributeError")
    ELSE IF Len(errors.v) = 0 THEN DetailsRaise("IndexError")
    ELSE LET error == errors.v[1] IN
         IF error.t # "dict" THEN DetailsRaise("AttributeError")
         ELSE LET extensions ==
                      DictGet(error.extensions, [t |-> "dict", code |-> AbsentCode]) IN
              IF extensions.t # "dict" THEN DetailsRaise("AttributeError")
              ELSE Details(DictGet(extensions.code, CodeStr(API_ERR_CODE_UNKNOWN)),
                           DictGet(error.message, default_message))

(* ----------------------- extract_response_data ---------------------- *)

\* fault: any content type that mentions json passes the gate
ContentTypeOkLoose(content_type) ==
    Contains(S_json, content_type)

ContentTypeOk(content_type) ==
    content_type = S_application_json

ContentTypeError(status, content_type) ==
    Raise("FatalHttpExceptionError", status,
          Str(S_UnexpectedCT \o content_type), CodeStr(API_ERR_CODE_UNKNOWN))

\* result = await response.json(), then the isinstance check
ParseGate(status, body) ==
    IF body.t = "malformed"
    THEN Raise("FatalHttpExceptionError", status,
               Str(S_FailedParse \o body.s), CodeStr(API_ERR_CODE_UNKNOWN))
    ELSE IF body.t # "dict"
    THEN Raise("FatalHttpExceptionError", status,
               Str(S_UnexpectedResp \o body.s), CodeStr(API_ERR_CODE_UNKNOWN))
    ELSE Pending

\* errors = result.get("errors", [])
GetErrors(res) ==
    DictGet(res.errors, [t |-> "list", v |-> <<>>])

\* fault: the UNAUTHENTICATED branch of the 200 path is missing
OkErrorsLegacy(status, errors) ==
    LET d == extract_error_details(errors, Str(ContentRepr)) IN
    IF d.exc # "none" THEN Crash(d.exc, status)
    ELSE IF d.message.t # "str" THEN Crash("TypeError", status)
    ELSE IF d.code = CodeStr("INTERNAL_SERVER_ERROR") /\ Contains(S_demo_user, d.message.s)
    THEN Raise("NotForDemoUserError", status, d.message, d.code)
    ELSE Pending

\* status 200 with errors: the two special cases, else "pending" to fall
\* through.  The & of the second test evaluates both operands, so the
\* substring test runs whatever the code is and raises on a non-str message.
OkErrors(status, errors) ==
    LET d == extract_error_details(errors, Str(ContentRepr)) IN
    IF d.exc # "none" THEN Crash(d.exc, status)
    ELSE IF d.code = CodeStr("UNAUTHENTICATED")
    THEN Raise("InvalidLoginError", status, d.message, d.code)
    ELSE IF d.message.t # "str" THEN Crash("TypeError", status)
    ELSE IF d.code = CodeStr("INTERNAL_SERVER_ERROR") /\ Contains(S_demo_user, d.message.s)
    THEN Raise("NotForDemoUserError", status, d.message, d.code)
    ELSE Pending

RetriablePath(status, errors) ==
    LET d == extract_error_details(errors, Str(ContentRepr)) IN
    IF d.exc # "none" THEN Crash(d.exc, status)
    ELSE Raise("RetryableHttpExceptionError", status, d.message, d.code)

\* fault: status 401 selects InvalidLoginError by itself
FatalPathStatus401(status, errors) ==
    LET d == extract_error_details(errors, Str(S_request_failed)) IN
    IF d.exc # "none" THEN Crash(d.exc, status)
    ELSE IF d.code = CodeStr(API_ERR_CODE_UNAUTH)
    THEN Raise("InvalidLoginError", status, d.message, d.code)
    ELSE IF status = 401
    THEN Raise("InvalidLoginError", status, d.message, CodeStr(API_ERR_CODE_UNAUTH))
    ELSE Raise("FatalHttpExceptionError", status, d.message, d.code)

FatalPath(status, errors) ==
    LET d == extract_error_details(errors, Str(S_request_failed)) IN
    IF d.exc # "none" THEN Crash(d.exc, status)
    ELSE IF d.code = CodeStr(API_ERR_CODE_UNAUTH)
    THEN Raise("InvalidLoginError", status, d.message, d.code)
    ELSE Raise("FatalHttpExceptionError", status, d.message, d.code)

UnhandledPath(status, errors) ==
    LET d == extract_error_details(errors, Str(S_NA)) IN
    IF d.exc # "none" THEN Crash(d.exc, status)
    ELSE Raise("FatalHttpExceptionError", status,
               Str(S_Unhandled \o d.message.s), d.code)

\* the status branches that follow the OK branch
StatusPaths(status, errors) ==
    IF status \in HTTP_CODES_RETRIABLE THEN RetriablePath(status, errors)
    ELSE IF status \in HTTP_CODES_FATAL THEN FatalPath(status, errors)
    ELSE UnhandledPath(status, errors)

\* everything after the parse gate, for a decoded mapping res
Classify(status, res) ==
    LET errors == GetErrors(res) IN
    IF status = HTTP_OK /\ Falsy(errors) THEN Return(status, res)
    ELSE IF status = HTTP_OK /\ OkErrors(status, errors).kind # "pending"
    THEN OkErrors(status, errors)
    ELSE StatusPaths(status, errors)

(* ------------------------------ machine ----------------------------- *)

Responses == [status : Statuses, content_type : ContentTypes, body : Bodies]

Init ==
    /\ response \in Responses
    /\ pc = "start"
    /\ result = NoBody
    /\ outcome = Pending

\* the call up to its suspension point: the content-type gate, then the
\* await of response.json()
Enter ==
    /\ pc = "start"
    /\ IF ContentTypeOk(response.content_type)
       THEN /\ pc' = "await_json"
            /\ outcome' = outcome
       ELSE /\ pc' = "done"
            /\ outcome' = ContentTypeError(response.status, response.content_type)
    /\ UNCHANGED <<response, result>>

\* the call from the completion of response.json() to its end
Resume ==
    /\ pc = "await_json"
    /\ pc' = "done"
    /\ LET gate == ParseGate(response.status, response.body) IN
       IF gate.kind # "pending"
       THEN /\ outcome' = gate
            /\ result' = result
       ELSE /\ result' = response.body
            /\ outcome' = Classify(response.status, response.body)
    /\ UNCHANGED response

Next == Enter \/ Resume

Spec == Init /\ [][Next]_vars

(* ----------------------- vocabulary of the claims -------------------- *)

Classified ==
    {"Success", "InvalidLoginError", "NotForDemoUserError",
     "RetryableHttpExceptionError", "FatalHttpExceptionError"}

Failures == Classified \ {"Success"}

Done == pc = "done"

\* content type application/json and a body that decodes to a mapping
JsonMapping ==
    /\ response.content_type = S_application_json
    /\ response.body.t = "dict"

BodyErrors == GetErrors(response.body)

\* the errors value is a list with at least one element
HasFirst == BodyErrors.t = "list" /\ Len(BodyErrors.v) > 0

First == BodyErrors.v[1]

\* the first error entry is a mapping whose extensions.code equals c
FirstCodeIs(c) ==
    /\ HasFirst
    /\ First.t = "dict"
    /\ First.extensions.t = "dict"
    /\ First.extensions.code = c

\* the first error entry is a mapping whose message is a str containing s
FirstMessageContains(s) ==
    /\ HasFirst
    /\ First.t = "dict"
    /\ First.message.t = "str"
    /\ Contains(s, First.message.s)

\* the first error entry carries a non-null extension code
FirstHasCode ==
    /\ HasFirst
    /\ First.t = "dict"
    /\ First.extensions.t = "dict"
    /\ First.extensions.code.t = "str"

\* the first error entry carries a non-null message
FirstHasMessage ==
    /\ HasFirst
    /\ First.t = "dict"
    /\ First.message.t = "str"

\* the code the claims expect: the first entry's, else the unknown sentinel
ExpectedCode ==
    IF FirstHasCode THEN First.extensions.code ELSE CodeStr(API_ERR_CODE_UNKNOWN)

\* the message the claims expect: the first entry's, else the path's default
ExpectedMessage(default) ==
    IF FirstHasMessage THEN First.message.s ELSE default

(* ------------------------------- C1 --------------------------------- *)

\* C1: every call that has ended has ended in a Success payload or in one
\* of InvalidLoginError, NotForDemoUserError, RetryableHttpExceptionError,
\* FatalHttpExceptionError; no call ends in any other exception.
C1_FiveOutcomes ==
    Done => outcome.kind \in Classified

(* ------------------------------- C2 --------------------------------- *)

\* C2: status 200, application/json, a mapping body whose errors is absent
\* or an empty list: the call returns, and the payload is the decoded body.
C2_SuccessPayload ==
    (/\ Done
     /\ response.status = 200
     /\ JsonMapping
     /\ \/ response.body.errors.t = "absent"
        \/ response.body.errors = [t |-> "list", v |-> <<>>])
    => /\ outcome.kind = "Success"
       /\ outcome.payload = response.body
       /\ outcome.payload.hasData = response.body.hasData

C2_Witness ==
    /\ Done
    /\ response.status = 200
    /\ JsonMapping
    /\ response.body.errors = [t |-> "list", v |-> <<>>]
    /\ response.body.hasData
    /\ outcome.kind = "Success"
    /\ outcome.payload = response.body

(* ------------------------------- C3 --------------------------------- *)

\* C3: status 200, a mapping body whose first error entry has
\* extensions.code "UNAUTHENTICATED": InvalidLoginError with status 200 and
\* that code, whatever the message and whatever the later entries.
C3_UnauthenticatedOn200 ==
    (/\ Done
     /\ response.status = 200
     /\ JsonMapping
     /\ FirstCodeIs(CodeStr("UNAUTHENTICATED")))
    => /\ outcome.kind = "InvalidLoginError"
       /\ outcome.status = 200
       /\ outcome.code = CodeStr("UNAUTHENTICATED")

\* the message contains "demo user" and a later entry follows
C3_Witness ==
    /\ Done
    /\ response.status = 200
    /\ JsonMapping
    /\ FirstCodeIs(CodeStr("UNAUTHENTICATED"))
    /\ FirstMessageContains(S_demo_user)
    /\ Len(BodyErrors.v) = 2
    /\ BodyErrors.v[2].t = "dict"
    /\ BodyErrors.v[2].extensions.code = CodeStr("INTERNAL_SERVER_ERROR")
    /\ outcome.kind = "InvalidLoginError"

(* ------------------------------- C4 --------------------------------- *)

\* C4: status 200 with a non-empty errors list: NotForDemoUserError exactly
\* when the first code is "INTERNAL_SERVER_ERROR" and the message contains
\* "demo user"; with that code and without the substring the outcome is
\* FatalHttpExceptionError or RetryableHttpExceptionError.
C4_DemoUserIff ==
    (/\ Done
     /\ response.status = 200
     /\ JsonMapping
     /\ HasFirst)
    => /\ (outcome.kind = "NotForDemoUserError")
            <=> (/\ FirstCodeIs(CodeStr("INTERNAL_SERVER_ERROR"))
                 /\ FirstMessageContains(S_demo_user))
       /\ (/\ FirstCodeIs(CodeStr("INTERNAL_SERVER_ERROR"))
           /\ ~FirstMessageContains(S_demo_user))
          => outcome.kind \in {"FatalHttpExceptionError", "RetryableHttpExceptionError"}

(* ------------------------------- C5 --------------------------------- *)

\* C5: a status of the retriable set, application/json, a mapping body:
\* RetryableHttpExceptionError, whatever the errors contain.
C5_RetriableAlways ==
    (/\ Done
     /\ response.status \in HTTP_CODES_RETRIABLE
     /\ JsonMapping)
    => outcome.kind = "RetryableHttpExceptionError"

(* ------------------------------- C6 --------------------------------- *)

\* C6: a status of the fatal set and not of the retriable set,
\* application/json, a mapping body: InvalidLoginError exactly when the
\* first entry's code is the unauthorized sentinel, FatalHttpExceptionError
\* in every other case; with no errors the message is "request failed" and
\* the code the unknown sentinel.
C6_FatalSet ==
    (/\ Done
     /\ response.status \in HTTP_CODES_FATAL \ HTTP_CODES_RETRIABLE
     /\ JsonMapping)
    => /\ FirstCodeIs(CodeStr(API_ERR_CODE_UNAUTH))
            => outcome.kind = "InvalidLoginError"
       /\ ~FirstCodeIs(CodeStr(API_ERR_CODE_UNAUTH))
            => outcome.kind = "FatalHttpExceptionError"
       /\ Falsy(BodyErrors)
            => /\ outcome.message = Str(S_request_failed)
               /\ outcome.code = CodeStr(API_ERR_CODE_UNKNOWN)

(* ------------------------------- C7 --------------------------------- *)

\* C7 as stated: status 401, application/json, body {}: InvalidLoginError
\* with status 401, message "request failed" and the unauthorized sentinel.
C7_Original ==
    (/\ Done
     /\ response.status = 401
     /\ JsonMapping
     /\ response.body.errors.t = "absent"
     /\ ~response.body.hasData)
    => outcome = Raise("InvalidLoginError", 401, Str(S_request_failed),
                       CodeStr(API_ERR_CODE_UNAUTH))

\* C7 as amended: status 401, application/json, body {}:
\* FatalHttpExceptionError with status 401, message "request failed" and
\* the unknown sentinel; the status alone never selects InvalidLoginError.
C7_Status401EmptyBodyIsFatal ==
    (/\ Done
     /\ response.status = 401
     /\ JsonMapping
     /\ response.body.errors.t = "absent"
     /\ ~response.body.hasData)
    => outcome = Raise("FatalHttpExceptionError", 401, Str(S_request_failed),
                       CodeStr(API_ERR_CODE_UNKNOWN))

C7_Witness ==
    /\ Done
    /\ response.status = 401
    /\ JsonMapping
    /\ response.body.errors.t = "absent"
    /\ ~response.body.hasData
    /\ result = response.body
    /\ outcome.kind = "FatalHttpExceptionError"

(* ------------------------------- C8 --------------------------------- *)

\* C8: a status outside the OK, retriable and fatal sets, application/json,
\* a mapping body: FatalHttpExceptionError whose message is
\* "Unhandled error: " followed by the first error's message or by "N/A",
\* and whose code is the first error's code or the unknown sentinel.
C8_UnhandledStatus ==
    (/\ Done
     /\ response.status \notin {HTTP_OK} \cup HTTP_CODES_RETRIABLE \cup HTTP_CODES_FATAL
     /\ JsonMapping)
    => /\ outcome.kind = "FatalHttpExceptionError"
       /\ outcome.message = Str(S_Unhandled \o ExpectedMessage(S_NA))
       /\ outcome.code = ExpectedCode

(* ------------------------------- C9 --------------------------------- *)

\* C9: a content type other than application/json: FatalHttpExceptionError
\* with the unknown sentinel and a message naming the content type, for
\* every status and body, and the body is never decoded.
C9_ContentTypeGate ==
    (/\ Done
     /\ response.content_type # S_application_json)
    => /\ outcome = Raise("FatalHttpExceptionError", response.status,
                          Str(S_UnexpectedCT \o response.content_type),
                          CodeStr(API_ERR_CODE_UNKNOWN))
       /\ result = NoBody

\* status 200, content type text/json, and a body whose first error says
\* UNAUTHENTICATED
C9_Witness ==
    /\ Done
    /\ response.content_type = S_text_json
    /\ response.status = 200
    /\ response.body.t = "dict"
    /\ FirstCodeIs(CodeStr("UNAUTHENTICATED"))
    /\ outcome.kind = "FatalHttpExceptionError"
    /\ Contains(S_text_json, outcome.message.s)

(* ------------------------------- C10 -------------------------------- *)

\* C10: every classified failure carries a message and a code that are
\* str and not empty; when the first error entry has no message (missing or
\* null) or no code (missing, no extensions, or null) on a retriable or
\* fatal status, the failure carries the path's default message and the
\* unknown sentinel.
C10_Populated ==
    (/\ Done
     /\ outcome.kind \in Failures)
    => /\ outcome.message.t = "str"
       /\ Len(outcome.message.s) > 0
       /\ outcome.code.t = "str"
       /\ outcome.code.s # ""
       /\ (/\ JsonMapping
           /\ HasFirst
           /\ First.t = "dict"
           /\ First.extensions.t \in {"absent", "dict"}
           /\ ~FirstHasCode)
          => outcome.code = CodeStr(API_ERR_CODE_UNKNOWN)
       /\ (/\ JsonMapping
           /\ HasFirst
           /\ First.t = "dict"
           /\ ~FirstHasMessage
           /\ response.status \in HTTP_CODES_FATAL \ HTTP_CODES_RETRIABLE)
          => outcome.message = Str(S_request_failed)

====
